---- MODULE Spec2Model ----
(***************************************************************************)
(* Node evacuation (EvacuateOptions.Run / RunEvacuate) as a state machine.  *)
(* The cluster (nodes, pods, replication controllers) is the state the      *)
(* client calls read and change; every blocking client call and every       *)
(* write to a stream is one step, recorded in the history variable log.     *)
(***************************************************************************)
EXTENDS Integers, Sequences, FiniteSets, TLC

\* ------------------------------------------------------------------ bounds
MaxNodes == 2    \* nodes in the cluster; GetNodes returns a list of distinct nodes
MaxPods == 4     \* pods 1..MaxPods exist in the cluster
MaxRCs == 3      \* replication controllers 1..MaxRCs exist, or all but the last, or none
MaxFailures == 2 \* collaborator calls (list, printer lookup, delete) that fail in a batch
MaxRuns == 2     \* times evacuation is run on the same node when it is re-run
MaxEnvSteps == 1 \* changes the control plane makes to the cluster during a batch

\* ------------------------------------------------------- program constants
DefaultGracePeriod == 30

\* --------------------------------------------------------- cluster objects
NodeName(i) == CASE i = 1 -> "n1" [] i = 2 -> "n2" [] OTHER -> "n3"

Nodes == {NodeName(i) : i \in 1..MaxNodes}

EmptyLabels == [k \in {} |-> "x"]

\* Host assignment of pod p (the field the field selector filters on).
PodHost(p) == IF p % 4 = 0 \/ p % 5 = 0 THEN "n2" ELSE "n1"

\* Namespace of pod p.
PodNamespace(p) == IF p % 2 = 0 THEN "nsB" ELSE "nsA"

\* Label set of pod p.
PodLabels(p) ==
  CASE p % 5 = 1 -> [k \in {"app"} |-> "x"]
    [] p % 5 = 2 -> [k \in {"app"} |-> "y"]
    [] p % 5 = 3 -> [k \in {"app", "tier"} |-> IF k = "app" THEN "x" ELSE "y"]
    [] p % 5 = 4 -> [k \in {"app", "tier"} |-> "y"]
    [] OTHER -> EmptyLabels

\* Spec.Selector of replication controller r.
RCSelector(r) ==
  CASE r % 3 = 1 -> [k \in {"app"} |-> "x"]
    [] r % 3 = 2 -> [k \in {"app", "tier"} |-> "y"]
    [] OTHER -> EmptyLabels

\* Namespace of replication controller r.
RCNamespace(r) == IF r % 2 = 0 THEN "nsA" ELSE "nsB"

\* labels.SelectorFromSet(sel).Matches(labels.Set(lbls)): every pair of the
\* selector is present and equal in the label set.
Matches(sel, lbls) ==
  \A k \in DOMAIN sel : k \in DOMAIN lbls /\ lbls[k] = sel[k]

\* ------------------------------------------------------------------ errors
Err(kind, node, pod) == [kind |-> kind, node |-> node, pod |-> pod, errs |-> <<>>]

Nil == Err("nil", "", 0)

\* kerrors.NewAggregate: nil for an empty list, else one error holding the list.
NewAggregate(list) ==
  IF Len(list) = 0 THEN Nil
  ELSE [kind |-> "Aggregate", node |-> "", pod |-> 0, errs |-> list]

\* ---------------------------------------------------------------- requests
PodSelectors == {"", "app=x", "app==x==y"}

\* labels.Parse on the selector strings of PodSelectors.
Parse(s) ==
  CASE s = "" -> [ok |-> TRUE, sel |-> EmptyLabels]
    [] s = "app=x" -> [ok |-> TRUE, sel |-> [k \in {"app"} |-> "x"]]
    [] OTHER -> [ok |-> FALSE, sel |-> EmptyLabels]

GracePeriods == {DefaultGracePeriod, 0}

NodeLists ==
  {l \in UNION {[1..n -> Nodes] : n \in 0..MaxNodes} :
     \A i, j \in DOMAIN l : i # j => l[i] # l[j]}

VARIABLES
  unsched,          \* cluster: node name -> Spec.Unschedulable
  clusterPods,      \* cluster: the pods that exist
  clusterRCs,       \* cluster: the replication controllers that exist
  clusterLabels,    \* cluster: pod -> its current label set
  opts,             \* EvacuateOptions and the NodeOptions it points to
  pc,               \* position in Run / RunEvacuate
  nodes,            \* Run: the nodes GetNodes returned
  ni,               \* Run: index of the node being processed
  runErrList,       \* Run: errList
  result,           \* Run: the returned error, once pc = "done"
  rets,             \* history: the error each RunEvacuate call returned
  labelSelector,    \* RunEvacuate: parsed pod selector
  pods,             \* RunEvacuate: pods.Items
  podItems,         \* RunEvacuate: pods.Items, pod -> the Labels of the listed copy
  rcs,              \* RunEvacuate: rcs.Items
  pi,               \* RunEvacuate: index of the pod being processed
  foundrc,          \* RunEvacuate: foundrc of the pod being processed
  firstPod,         \* RunEvacuate: firstPod
  numPodsWithNoRC,  \* RunEvacuate: numPodsWithNoRC
  errList,          \* RunEvacuate: errList
  log,              \* history: calls and writes, in order
  initPods,         \* history: the pods that existed when Run was called
  callPods,         \* history: the pods that existed at each RunEvacuate call
  retPods           \* history: the pods that existed at each RunEvacuate return

vars == <<unsched, clusterPods, clusterRCs, clusterLabels, opts, pc, nodes, ni,
          runErrList, podItems,
          result, rets, labelSelector, pods, rcs, pi, foundrc, firstPod,
          numPodsWithNoRC, errList, log, initPods, callPods, retPods>>

cluster == <<unsched, clusterPods, clusterRCs, clusterLabels>>
runVars == <<nodes, ni, runErrList, result, rets, retPods>>
histVars == <<initPods, callPods>>
stepVars == <<labelSelector, pods, podItems, rcs, pi, foundrc, firstPod, numPodsWithNoRC, errList>>

\* One entry of the history: what was called or written during step `step`.
Event(kind, step, node, pod, flag, grace) ==
  [kind |-> kind, step |-> step, node |-> node, pod |-> pod, flag |-> flag,
   grace |-> grace]

\* NewEvacuateOptions: the defaults of the optional parameters.
NewEvacuateOptions(podSelector, nodeArgs) ==
  [dryRun |-> FALSE, force |-> FALSE, gracePeriod |-> DefaultGracePeriod,
   podSelector |-> podSelector, nodeArgs |-> nodeArgs]

\* AddFlags: the command line may override each optional parameter.
AddFlags(e, dryRun, force, gracePeriod) ==
  [e EXCEPT !.dryRun = dryRun, !.force = force, !.gracePeriod = gracePeriod]

\* Evacuation of one node, run again on that node up to MaxRuns times.
RetryLists == {[i \in 1..n |-> m] : n \in 2..MaxRuns, m \in Nodes}

\* The state after construction, for a request over one of the node lists.
InitOver(lists) ==
  /\ clusterPods = 1..MaxPods
  /\ \E k \in {0, MaxRCs - 1, MaxRCs} : clusterRCs = 1..k
  /\ clusterLabels = [p \in 1..MaxPods |-> PodLabels(p)]
  /\ \E s \in PodSelectors, l \in lists, d \in BOOLEAN, f \in BOOLEAN,
        g \in GracePeriods :
       \* the grace period is not read in a dry run
       /\ d => g = DefaultGracePeriod
       /\ opts = AddFlags(NewEvacuateOptions(s, l), d, f, g)
       \* the flag of a node that is not in the list is not read
       /\ unsched \in [Nodes -> BOOLEAN]
       /\ \A n \in Nodes : (\A i \in DOMAIN l : l[i] # n) => ~unsched[n]
  /\ pc = "Run"
  /\ nodes = <<>>
  /\ ni = 0
  /\ runErrList = <<>>
  /\ result = Nil
  /\ rets = <<>>
  /\ labelSelector = EmptyLabels
  /\ pods = <<>>
  /\ podItems = [p \in {} |-> EmptyLabels]
  /\ rcs = <<>>
  /\ pi = 0
  /\ foundrc = FALSE
  /\ firstPod = TRUE
  /\ numPodsWithNoRC = 0
  /\ errList = <<>>
  /\ log = <<>>
  /\ initPods = clusterPods
  /\ callPods = <<>>
  /\ retPods = <<>>

Init == InitOver(NodeLists)

\* The same, when the request names the same node again (a re-run).
InitRetry == InitOver(RetryLists)

\* ------------------------------------------------------ collaborator calls
\* The outcomes a collaborator call can have: it succeeds, or it fails while
\* fewer than MaxFailures calls of the batch have failed.
Outcomes ==
  IF Cardinality({i \in DOMAIN log :
                    /\ ~log[i].flag
                    /\ log[i].kind \in {"listRun", "listPods", "listRCs",
                                         "printers", "delete"}}) < MaxFailures
  THEN BOOLEAN
  ELSE {TRUE}

RECURSIVE Ascending(_)
\* The members of a set of pod or controller ids as a list, in id order.
Ascending(S) ==
  IF S = {} THEN <<>>
  ELSE LET m == CHOOSE x \in S : \A y \in S : x <= y
       IN <<m>> \o Ascending(S \ {m})

\* Pods(NamespaceAll).List with a label selector and the host field selector:
\* the pods that satisfy the selector and belong to the node.
ListPods(sel, node) ==
  Ascending({p \in clusterPods : Matches(sel, clusterLabels[p]) /\ PodHost(p) = node})

\* ReplicationControllers(NamespaceAll).List with empty list options.
ListRCs == Ascending(clusterRCs)

RECURSIVE ListPodsEvents(_, _, _)
\* ListPodsOptions.Run: for every node of the options, print its pods.
ListPodsEvents(step, sel, ns) ==
  IF ns = <<>> THEN <<>>
  ELSE LET ps == ListPods(sel, Head(ns))
       IN [i \in 1..Len(ps) |-> Event("listed", step, Head(ns), ps[i], i = 1, 0)]
          \o ListPodsEvents(step, sel, Tail(ns))

\* ------------------------------------------------------- decisions of Run
\* Variant: Run bails out at the first node that fails.
RunLoopFailFast(i, ns, errs) == i < Len(ns) /\ Len(errs) = 0

\* for _, node := range nodes: the loop goes on while nodes remain.
RunLoopContinues(i, ns, errs) == i < Len(ns)

\* Variant: Run keeps only the latest node error.
CollectLast(errs, err) == IF err # Nil THEN <<err>> ELSE errs

\* if err != nil { errList = append(errList, err) }
Collect(errs, err) == IF err # Nil THEN Append(errs, err) ELSE errs

\* ----------------------------------------------- decisions of RunEvacuate
\* Variant: the dry-run flag is ignored.
DryRunIgnored(e) == FALSE

\* if e.DryRun
DryRunBranch(e) == e.dryRun

\* Variant: the gate is missing.
GateMissing(e, node) == FALSE

\* Variant: --force bypasses the gate.
GateBypassedByForce(e, node) == ~unsched[node] /\ ~e.force

\* if !node.Spec.Unschedulable
NodeNotUnschedulable(e, node) == ~unsched[node]

\* Variant: only a controller of the pod's own namespace can back it.
FoundRCSameNamespace(pod, rcItems) ==
  \E i \in 1..Len(rcItems) :
    /\ Matches(RCSelector(rcItems[i]), podItems[pod])
    /\ RCNamespace(rcItems[i]) = PodNamespace(pod)

\* Variant: the match is re-validated against the cluster before the delete.
FoundRCRevalidated(pod, rcItems) ==
  \E i \in 1..Len(rcItems) :
    /\ rcItems[i] \in clusterRCs
    /\ Matches(RCSelector(rcItems[i]), clusterLabels[pod])

\* Variant: a controller matches only a pod whose labels equal its selector.
FoundRCExactLabels(pod, rcItems) ==
  \E i \in 1..Len(rcItems) : RCSelector(rcItems[i]) = podItems[pod]

\* The inner loop over rcs.Items: some controller's selector matches the pod.
FoundRC(pod, rcItems) ==
  \E i \in 1..Len(rcItems) : Matches(RCSelector(rcItems[i]), podItems[pod])

\* Variant: firstPod is never cleared, every pod gets banner and headers.
PrintEventsAlwaysFirst(step, node, pod, first) ==
  <<Event("banner", step, node, 0, FALSE, 0),
    Event("print", step, node, pod, TRUE, 0)>>

\* if firstPod: the banner and the printer with headers; else the printer
\* without headers.
PrintEvents(step, node, pod, first) ==
  IF first
  THEN <<Event("banner", step, node, 0, FALSE, 0),
         Event("print", step, node, pod, TRUE, 0)>>
  ELSE <<Event("print", step, node, pod, FALSE, 0)>>

\* Variant: --force is ignored.
DeleteIssuedNoForce(found, e) == found

\* Variant: only --force deletes.
DeleteIssuedOnlyForce(found, e) == e.force

\* if foundrc || e.Force
DeleteIssued(found, e) == found \/ e.force

\* Variant: the delete options carry the default, not the request's value.
makeDeleteOptionsDefault(e) == DefaultGracePeriod

\* makeDeleteOptions: the grace period of the request.
makeDeleteOptions(e) == e.gracePeriod

\* On a failed delete the error is appended to errList.
ErrListAfterDelete(errs, node, pod, ok) ==
  IF ok THEN errs ELSE Append(errs, Err("DeleteError", node, pod))

\* Variant: break instead of continue on a failed delete.
NextAfterDeleteBreak(i, ps, ok) == IF ok THEN i ELSE Len(ps)

\* Variant: a failed delete makes the loop pass over the next pod.
NextAfterDeleteSkipsOne(i, ps, ok) ==
  IF ok \/ i >= Len(ps) THEN i ELSE i + 1

\* The position the pod loop goes on from after a delete call (continue).
NextAfterDelete(i, ps, ok) == i

\* Variant: one error per skipped pod.
ErrListAtEndPerPod(errs, node, n) ==
  errs \o [i \in 1..n |-> Err("UnsafePodsRemain", node, 0)]

\* Variant: the test is numPodsWithNoRC >= 0.
ErrListAtEndAlways(errs, node, n) == Append(errs, Err("UnsafePodsRemain", node, 0))

\* if numPodsWithNoRC > 0: one error, whatever the count.
ErrListAtEnd(errs, node, n) ==
  IF n > 0 THEN Append(errs, Err("UnsafePodsRemain", node, 0)) ELSE errs

\* if len(errList) != 0 { return NewAggregate(errList) }; return nil
StepResult(errs) == IF Len(errs) # 0 THEN NewAggregate(errs) ELSE Nil

\* ------------------------------------------------------------------- Run
CurNode == nodes[ni]

\* RunEvacuate returns err to Run, which collects it and goes on.
Return(err) ==
  /\ rets' = Append(rets, err)
  /\ retPods' = Append(retPods, clusterPods)
  /\ runErrList' = Collect(runErrList, err)
  /\ pc' = "loop"
  /\ UNCHANGED <<nodes, ni, result>>

\* nodes, err := e.Options.GetNodes(); if err != nil { return err }
GetNodes ==
  /\ pc = "Run"
  /\ \E ok \in BOOLEAN :
       IF ok
       THEN /\ nodes' = opts.nodeArgs
            /\ pc' = "loop"
            /\ result' = result
       ELSE /\ nodes' = nodes
            /\ pc' = "done"
            /\ result' = Err("GetNodesError", "", 0)
  /\ UNCHANGED <<cluster, opts, ni, runErrList, rets, retPods, stepVars, log, histVars>>

\* The next iteration of the loop over nodes: RunEvacuate(node) is called.
RunLoop ==
  /\ pc = "loop"
  /\ RunLoopContinues(ni, nodes, runErrList)
  /\ ni' = ni + 1
  /\ pc' = "RunEvacuate"
  /\ log' = Append(log, Event("call", ni + 1, nodes[ni + 1], 0, FALSE, 0))
  /\ callPods' = Append(callPods, clusterPods)
  /\ UNCHANGED <<cluster, opts, nodes, runErrList, result, rets, retPods,
                 stepVars, initPods>>

\* return kerrors.NewAggregate(errList)
RunReturn ==
  /\ pc = "loop"
  /\ ~RunLoopContinues(ni, nodes, runErrList)
  /\ result' = NewAggregate(runErrList)
  /\ pc' = "done"
  /\ UNCHANGED <<cluster, opts, nodes, ni, runErrList, rets, retPods, stepVars, log,
                 histVars>>

\* ----------------------------------------------------------- RunEvacuate
\* Entry: the dry-run test comes first.
Enter ==
  /\ pc = "RunEvacuate"
  /\ pc' = IF DryRunBranch(opts) THEN "dryRun" ELSE "gate"
  /\ labelSelector' = EmptyLabels
  /\ pods' = <<>>
  /\ podItems' = [p \in {} |-> EmptyLabels]
  /\ rcs' = <<>>
  /\ pi' = 0
  /\ foundrc' = FALSE
  /\ firstPod' = TRUE
  /\ numPodsWithNoRC' = 0
  /\ errList' = <<>>
  /\ UNCHANGED <<cluster, opts, runVars, log, histVars>>

\* listpodsOp := ListPodsOptions{Options: e.Options}; return listpodsOp.Run()
DryRun ==
  /\ pc = "dryRun"
  /\ IF ~Parse(opts.podSelector).ok
     THEN /\ log' = log
          /\ Return(Err("InvalidSelector", "", 0))
     ELSE \E ok \in Outcomes :
            IF ok
            THEN /\ log' = Append(log, Event("listRun", ni, "", 0, TRUE, 0))
                             \o ListPodsEvents(ni, Parse(opts.podSelector).sel, nodes)
                 /\ Return(Nil)
            ELSE /\ log' = Append(log, Event("listRun", ni, "", 0, FALSE, 0))
                 /\ Return(Err("ListError", "", 0))
  /\ UNCHANGED <<cluster, opts, stepVars, histVars>>

\* Variant: the node is marked unschedulable on the caller's behalf.
GateFailMarksNode ==
  /\ pc = "gate"
  /\ NodeNotUnschedulable(opts, CurNode)
  /\ unsched' = [unsched EXCEPT ![CurNode] = TRUE]
  /\ log' = Append(log, Event("gate", ni, CurNode, 0, TRUE, 0))
  /\ pc' = "parse"
  /\ UNCHANGED <<clusterPods, clusterRCs, clusterLabels, opts, runVars, stepVars, histVars>>

\* The safety gate: the node must already be unschedulable.
GateFail ==
  /\ pc = "gate"
  /\ NodeNotUnschedulable(opts, CurNode)
  /\ log' = Append(log, Event("gate", ni, CurNode, 0, FALSE, 0))
  /\ Return(Err("NodeNotUnschedulable", CurNode, 0))
  /\ UNCHANGED <<cluster, opts, stepVars, histVars>>

GatePass ==
  /\ pc = "gate"
  /\ ~NodeNotUnschedulable(opts, CurNode)
  /\ log' = Append(log, Event("gate", ni, CurNode, 0, TRUE, 0))
  /\ pc' = "parse"
  /\ UNCHANGED <<cluster, opts, runVars, stepVars, histVars>>

\* labelSelector, err := labels.Parse(e.Options.PodSelector)
ParseSelector ==
  /\ pc = "parse"
  /\ LET r == Parse(opts.podSelector)
     IN IF r.ok
        THEN /\ labelSelector' = r.sel
             /\ pc' = "listPods"
             /\ UNCHANGED runVars
        ELSE /\ labelSelector' = labelSelector
             /\ Return(Err("InvalidSelector", CurNode, 0))
  /\ UNCHANGED <<cluster, opts, pods, podItems, rcs, pi, foundrc, firstPod,
                 numPodsWithNoRC, errList, log, histVars>>

\* pods, err := e.Options.Kclient.Pods(kapi.NamespaceAll).List(...)
ListTargetPods ==
  /\ pc = "listPods"
  /\ \E ok \in Outcomes :
       /\ log' = Append(log, Event("listPods", ni, CurNode, 0, ok, 0))
       /\ IF ok
          THEN /\ pods' = ListPods(labelSelector, CurNode)
               /\ podItems' = [p \in {q \in clusterPods :
                                         /\ Matches(labelSelector, clusterLabels[q])
                                         /\ PodHost(q) = CurNode} |-> clusterLabels[p]]
               /\ pc' = "listRCs"
               /\ UNCHANGED runVars
          ELSE /\ pods' = pods
               /\ podItems' = podItems
               /\ Return(Err("ListError", CurNode, 0))
  /\ UNCHANGED <<cluster, opts, labelSelector, rcs, pi, foundrc, firstPod,
                 numPodsWithNoRC, errList, histVars>>

\* Variant: a failed controller listing is ignored, the step goes on with none.
ListControllersIgnoresError ==
  /\ pc = "listRCs"
  /\ \E ok \in Outcomes :
       /\ log' = Append(log, Event("listRCs", ni, CurNode, 0, ok, 0))
       /\ rcs' = IF ok THEN ListRCs ELSE <<>>
  /\ pc' = "printers"
  /\ UNCHANGED <<cluster, opts, runVars, labelSelector, pods, podItems, pi, foundrc,
                 firstPod, numPodsWithNoRC, errList, histVars>>

\* rcs, err := e.Options.Kclient.ReplicationControllers(kapi.NamespaceAll).List(...)
ListControllers ==
  /\ pc = "listRCs"
  /\ \E ok \in Outcomes :
       /\ log' = Append(log, Event("listRCs", ni, CurNode, 0, ok, 0))
       /\ IF ok
          THEN /\ rcs' = ListRCs
               /\ pc' = "printers"
               /\ UNCHANGED runVars
          ELSE /\ rcs' = rcs
               /\ Return(Err("ListError", CurNode, 0))
  /\ UNCHANGED <<cluster, opts, labelSelector, pods, podItems, pi, foundrc, firstPod,
                 numPodsWithNoRC, errList, histVars>>

\* printerWithHeaders, printerNoHeaders, err := e.Options.GetPrintersByResource(...)
\* and the initialisation of errList, firstPod, numPodsWithNoRC.
GetPrinters ==
  /\ pc = "printers"
  /\ \E ok \in Outcomes :
       /\ log' = Append(log, Event("printers", ni, CurNode, 0, ok, 0))
       /\ IF ok
          THEN /\ pc' = "podLoop"
               /\ UNCHANGED runVars
          ELSE Return(Err("PrinterError", CurNode, 0))
  /\ errList' = <<>>
  /\ firstPod' = TRUE
  /\ numPodsWithNoRC' = 0
  /\ pi' = 0
  /\ UNCHANGED <<cluster, opts, labelSelector, pods, podItems, rcs, foundrc, histVars>>

\* One iteration of the pod loop up to the delete decision: classify the
\* pod, write the banner for the first pod, print the pod.
PrintPod ==
  /\ pc = "podLoop"
  /\ pi < Len(pods)
  /\ pi' = pi + 1
  /\ foundrc' = FoundRC(pods[pi + 1], rcs)
  /\ log' = log \o PrintEvents(ni, CurNode, pods[pi + 1], firstPod)
  /\ firstPod' = FALSE
  /\ pc' = "delete"
  /\ UNCHANGED <<cluster, opts, runVars, labelSelector, pods, podItems, rcs,
                 numPodsWithNoRC, errList, histVars>>

\* e.Options.Kclient.Pods(pod.Namespace).Delete(pod.Name, deleteOptions)
DeletePod ==
  /\ pc = "delete"
  /\ DeleteIssued(foundrc, opts)
  /\ \E ok \in Outcomes :
       /\ log' = Append(log, Event("delete", ni, CurNode, pods[pi], ok, makeDeleteOptions(opts)))
       /\ clusterPods' = IF ok THEN clusterPods \ {pods[pi]} ELSE clusterPods
       /\ errList' = ErrListAfterDelete(errList, CurNode, pods[pi], ok)
       /\ pi' = NextAfterDelete(pi, pods, ok)
  /\ pc' = "podLoop"
  /\ UNCHANGED <<unsched, clusterRCs, clusterLabels, opts, runVars, labelSelector, pods, podItems, rcs,
                 foundrc, firstPod, numPodsWithNoRC, histVars>>

\* Pods without replication controller and no --force option.
SkipPod ==
  /\ pc = "delete"
  /\ ~DeleteIssued(foundrc, opts)
  /\ numPodsWithNoRC' = numPodsWithNoRC + 1
  /\ pc' = "podLoop"
  /\ UNCHANGED <<cluster, opts, runVars, labelSelector, pods, podItems, rcs, pi, foundrc,
                 firstPod, errList, log, histVars>>

\* After the loop: the error for skipped pods, and the step's result.
Finish ==
  /\ pc = "podLoop"
  /\ pi >= Len(pods)
  /\ errList' = ErrListAtEnd(errList, CurNode, numPodsWithNoRC)
  /\ Return(StepResult(errList'))
  /\ UNCHANGED <<cluster, opts, labelSelector, pods, podItems, rcs, pi, foundrc,
                 firstPod, numPodsWithNoRC, log, histVars>>

Next ==
  \/ GetNodes
  \/ RunLoop
  \/ RunReturn
  \/ Enter
  \/ DryRun
  \/ GateFail
  \/ GatePass
  \/ ParseSelector
  \/ ListTargetPods
  \/ ListControllers
  \/ GetPrinters
  \/ PrintPod
  \/ DeletePod
  \/ SkipPod
  \/ Finish

Spec == Init /\ [][Next]_vars

\* Evacuation re-run on the same node.
SpecRetry == InitRetry /\ [][Next]_vars


\* ------------------------------------------------------- the control plane
\* Other clients of the API server change the cluster while a batch runs.
\* The label set a relabelled pod gets.
Relabelled == [k \in {"app"} |-> "z"]

EnvKinds == {"envRemoveRC", "envRelabel", "envSchedulable"}

EnvEnabled ==
  /\ pc # "done"
  /\ Cardinality({i \in DOMAIN log : log[i].kind \in EnvKinds}) < MaxEnvSteps

\* A replication controller is removed (the event's pod field holds its id).
EnvRemoveRC ==
  /\ EnvEnabled
  /\ \E r \in clusterRCs :
       /\ clusterRCs' = clusterRCs \ {r}
       /\ log' = Append(log, Event("envRemoveRC", ni, "", r, TRUE, 0))
  /\ UNCHANGED <<unsched, clusterPods, clusterLabels, opts, pc, runVars, stepVars,
                 histVars>>

\* A pod's labels are replaced.
EnvRelabel ==
  /\ EnvEnabled
  /\ \E p \in clusterPods :
       /\ clusterLabels[p] # Relabelled
       /\ clusterLabels' = [clusterLabels EXCEPT ![p] = Relabelled]
       /\ log' = Append(log, Event("envRelabel", ni, "", p, TRUE, 0))
  /\ UNCHANGED <<unsched, clusterPods, clusterRCs, opts, pc, runVars, stepVars,
                 histVars>>

\* A node is marked schedulable again.
EnvSchedulable ==
  /\ EnvEnabled
  /\ \E n \in Nodes :
       /\ unsched[n]
       /\ unsched' = [unsched EXCEPT ![n] = FALSE]
       /\ log' = Append(log, Event("envSchedulable", ni, n, 0, TRUE, 0))
  /\ UNCHANGED <<clusterPods, clusterRCs, clusterLabels, opts, pc, runVars, stepVars,
                 histVars>>

\* Evacuation of one unschedulable node without --dry-run and --force, with
\* replication controllers in the cluster.
InitEnv ==
  /\ InitOver({<<n>> : n \in Nodes})
  /\ ~opts.dryRun /\ ~opts.force /\ opts.gracePeriod = DefaultGracePeriod
  /\ Parse(opts.podSelector).ok
  /\ unsched[opts.nodeArgs[1]]
  /\ clusterRCs # {}

NextEnv ==
  \/ GetNodes
  \/ RunLoop
  \/ RunReturn
  \/ Enter
  \/ GateFail
  \/ GatePass
  \/ ParseSelector
  \/ ListTargetPods
  \/ ListControllers
  \/ GetPrinters
  \/ PrintPod
  \/ DeletePod
  \/ SkipPod
  \/ Finish
  \/ EnvRemoveRC
  \/ EnvRelabel
  \/ EnvSchedulable

\* Evacuation while the control plane changes the cluster.
SpecEnv == InitEnv /\ [][NextEnv]_vars

\* ================================================================ claims
\* Reference notions the properties are stated with, computed from the
\* cluster and the request, not from the locals of RunEvacuate.

\* The steps (RunEvacuate calls) that have returned.
Returned == 1..Len(rets)

\* The positions in the history of the events of one kind of step s.
Idx(kind, s) == {i \in DOMAIN log : log[i].kind = kind /\ log[i].step = s}

\* The number of delete calls step s issued for pod p.
DeleteCalls(s, p) == Cardinality({i \in Idx("delete", s) : log[i].pod = p})

\* The target pods of step s: the pods that existed when the step was
\* called, are hosted on its node and satisfy the pod selector.
Targets(s) ==
  IF Parse(opts.podSelector).ok
  THEN {p \in callPods[s] : /\ PodHost(p) = nodes[s]
                            /\ Matches(Parse(opts.podSelector).sel, PodLabels(p))}
  ELSE {}

\* Pod p is controller-backed: some existing controller's selector matches it.
Backed(p) == \E r \in clusterRCs : Matches(RCSelector(r), PodLabels(p))

Standalone(s) == {p \in Targets(s) : ~Backed(p)}

\* Step s got past the gate, the selector parsing, both listings and the
\* printer lookup.
ReachedLoop(s) == \E i \in Idx("printers", s) : log[i].flag

\* The entries of one kind in the error a step returned.
Entries(err, kind) == {i \in DOMAIN err.errs : err.errs[i].kind = kind}

GateError(node) == Err("NodeNotUnschedulable", node, 0)

\* C1: RunEvacuate on a node whose unschedulable flag is false issues no pod
\* delete call, whatever dryRun, force, gracePeriodSeconds and podSelector
\* are, and the cluster's pod set is the same after the step as before it.
C1_SchedulableNodeNoDelete ==
  /\ \A i \in DOMAIN log : log[i].kind = "delete" => unsched[log[i].node]
  /\ \A s \in Returned : ~unsched[nodes[s]] => retPods[s] = callPods[s]

\* A step on a schedulable node that hosts target pods has returned, with
\* --force and without --dry-run.
C1_Witness ==
  \E s \in Returned :
    /\ ~unsched[nodes[s]] /\ opts.force /\ ~opts.dryRun
    /\ Targets(s) # {}
    /\ opts.gracePeriod = 0

C3_BackedPodDeletedOnce ==
  /\ \A s \in Returned :
       (~opts.dryRun /\ ~opts.force /\ unsched[nodes[s]] /\ ReachedLoop(s)) =>
         \A p \in Targets(s) : Backed(p) => DeleteCalls(s, p) = 1
  /\ \A s \in 1..ni : \A p \in 1..MaxPods : DeleteCalls(s, p) <= 1

\* A step without --force has returned in which two controller-backed pods
\* got their delete call and the first of these calls failed.
C3_Witness ==
  \E s \in Returned :
    /\ ~opts.dryRun /\ ~opts.force /\ ReachedLoop(s)
    /\ \E p, q \in Targets(s) :
         /\ p < q /\ Backed(p) /\ Backed(q)
         /\ \E i \in Idx("delete", s) : log[i].pod = p /\ ~log[i].flag
         /\ DeleteCalls(s, q) = 1

\* C4 as stated: without --dry-run and --force on an unschedulable node, no
\* standalone pod receives a delete call and the returned error holds exactly
\* one UnsafePodsRemain entry when there are standalone target pods, else none.
C4_StandaloneSkippedOneError ==
  \A s \in Returned :
    (~opts.dryRun /\ ~opts.force /\ unsched[nodes[s]]) =>
      /\ \A p \in Standalone(s) : DeleteCalls(s, p) = 0
      /\ Cardinality(Entries(rets[s], "UnsafePodsRemain"))
           = IF Standalone(s) # {} THEN 1 ELSE 0

\* C4 amended: the same, for a step in which the selector parsing, both
\* listings and the printer lookup succeeded; and without --force no
\* standalone pod receives a delete call in any step.
C4_StandaloneSkippedOneErrorAfterListing ==
  /\ \A s \in Returned :
       (~opts.dryRun /\ ~opts.force /\ unsched[nodes[s]] /\ ReachedLoop(s)) =>
         /\ \A p \in Standalone(s) : DeleteCalls(s, p) = 0
         /\ Cardinality(Entries(rets[s], "UnsafePodsRemain"))
              = IF Standalone(s) # {} THEN 1 ELSE 0
  /\ \A s \in 1..ni :
       (~opts.dryRun /\ ~opts.force) =>
         \A p \in 1..MaxPods : ~Backed(p) => DeleteCalls(s, p) = 0

\* A step without --force has returned that skipped three standalone pods
\* and returned one UnsafePodsRemain entry.
C4_Witness ==
  \E s \in Returned :
    /\ ~opts.dryRun /\ ~opts.force /\ ReachedLoop(s)
    /\ Cardinality(Standalone(s)) >= 3
    /\ Cardinality(Entries(rets[s], "UnsafePodsRemain")) = 1

\* C5: with --force and without --dry-run, in a step that got past the gate
\* and the listings, every target pod, backed or standalone, has received
\* exactly one delete call when the step returns; the skipped-unsafe counter
\* stays 0 and no UnsafePodsRemain error is returned.
C5_ForceDeletesEveryTarget ==
  /\ \A s \in Returned :
       (~opts.dryRun /\ opts.force /\ unsched[nodes[s]] /\ ReachedLoop(s)) =>
         /\ \A p \in Targets(s) : DeleteCalls(s, p) = 1
         /\ Entries(rets[s], "UnsafePodsRemain") = {}
  /\ (~opts.dryRun /\ opts.force) => numPodsWithNoRC = 0

\* A step with --force has returned that deleted a controller-backed and a
\* standalone pod.
C5_Witness ==
  \E s \in Returned :
    /\ ~opts.dryRun /\ opts.force /\ ReachedLoop(s)
    /\ \E p, q \in Targets(s) :
         /\ Backed(p) /\ ~Backed(q)
         /\ DeleteCalls(s, p) = 1 /\ DeleteCalls(s, q) = 1
         /\ q \notin retPods[s]


\* C6: with --dry-run a whole batch issues no delete call, whatever force,
\* the pods' classification and the nodes' unschedulable flags are; the
\* cluster's pod set stays the one the batch started with.
C6_DryRunDeletesNothing ==
  opts.dryRun =>
    /\ \A i \in DOMAIN log : log[i].kind # "delete"
    /\ clusterPods = initPods

\* A dry-run batch with --force over an unschedulable and a schedulable node
\* has ended; it listed a controller-backed and a standalone pod.
C6_Witness ==
  /\ pc = "done" /\ opts.dryRun /\ opts.force
  /\ Len(rets) = 2
  /\ unsched[nodes[1]] /\ ~unsched[nodes[2]]
  /\ \E p, q \in Targets(1) : Backed(p) /\ ~Backed(q)
  /\ \E i \in Idx("listed", 1) : log[i].pod \in Targets(1)

\* The nodes RunEvacuate was called with so far, in call order.
CallNodes ==
  LET calls == SelectSeq(log, LAMBDA e : e.kind = "call")
  IN [i \in 1..Len(calls) |-> calls[i].node]

\* The pods of step s that are deleted when no delete fails.
Eligible(s) == {p \in Targets(s) : Backed(p) \/ opts.force}

\* C7: Run calls RunEvacuate once for every node of the node list, in list
\* order, whatever the earlier nodes returned; when one node fails its gate
\* check and every other node returns no error, the other nodes' eligible
\* pods are all deleted and the aggregate holds the gate error alone.
C7_EveryNodeProcessedInOrder ==
  /\ CallNodes = SubSeq(nodes, 1, ni)
  /\ Len(rets) \in {ni - 1, ni}
  /\ pc = "done" =>
       /\ ni = Len(nodes)
       /\ Len(rets) = Len(nodes)
       /\ \A a \in Returned :
            (/\ rets[a] = GateError(nodes[a])
             /\ \A b \in Returned \ {a} : rets[b] = Nil) =>
              /\ result = NewAggregate(<<GateError(nodes[a])>>)
              /\ \A b \in Returned \ {a} :
                   ~opts.dryRun =>
                     \A p \in Eligible(b) :
                       DeleteCalls(b, p) = 1 /\ p \notin retPods[b]

\* A batch has ended whose first node failed the gate check and whose second
\* node had its pods, one of them backed, deleted without error.
C7_Witness ==
  /\ pc = "done" /\ ~opts.dryRun
  /\ Len(nodes) = 2
  /\ rets[1] = GateError(nodes[1])
  /\ rets[2] = Nil
  /\ \E p \in Targets(2) : Backed(p) /\ DeleteCalls(2, p) = 1
  /\ Len(result.errs) = 1

\* The collaborator calls of step s that failed.
Failed(kind, s) == {i \in Idx(kind, s) : ~log[i].flag}

\* The pods step s printed in its loop and issued no delete call for.
Skipped(s) == {p \in 1..MaxPods : /\ \E i \in Idx("print", s) : log[i].pod = p
                                  /\ DeleteCalls(s, p) = 0}

\* Node s reached Success: the gate, the selector parsing, the listings and
\* the printer lookup succeeded, no delete failed, no pod was skipped.
StepSuccess(s) ==
  /\ unsched[nodes[s]]
  /\ Parse(opts.podSelector).ok
  /\ Failed("listRun", s) = {}
  /\ Failed("listPods", s) = {}
  /\ Failed("listRCs", s) = {}
  /\ Failed("printers", s) = {}
  /\ Failed("delete", s) = {}
  /\ Skipped(s) = {}

\* The errors the steps returned, in step order.
NodeErrors == SelectSeq(rets, LAMBDA e : e # Nil)

C9_DeleteFailureIsolated ==
  \A s \in Returned :
    (~opts.dryRun /\ ReachedLoop(s)) =>
      /\ \A p \in Targets(s) :
           /\ Cardinality({i \in Idx("print", s) : log[i].pod = p}) = 1
           /\ p \in Eligible(s) => DeleteCalls(s, p) = 1
      /\ Cardinality(Entries(rets[s], "DeleteError")) = Cardinality(Failed("delete", s))
      /\ \A i \in Failed("delete", s) :
           \E k \in Entries(rets[s], "DeleteError") :
             rets[s].errs[k] = Err("DeleteError", nodes[s], log[i].pod)

\* A step has returned in which the first pod's delete failed and a later pod
\* was then printed and deleted, and a third pod's delete failed too.
C9_Witness ==
  \E s \in Returned :
    /\ ~opts.dryRun /\ ReachedLoop(s)
    /\ Cardinality(Failed("delete", s)) = 2
    /\ \E i \in Failed("delete", s) :
         \E j \in Idx("print", s), k \in Idx("delete", s) :
           i < j /\ j < k /\ log[j].pod = log[k].pod /\ log[k].flag

\* The print events of step s, in order.
Prints(s) == SelectSeq(log, LAMBDA e : e.kind = "print" /\ e.step = s)

\* C10: in a non-dry-run step that reached the loop every target pod is
\* printed once, in listing order, deleted or not; the first with the
\* header-bearing printer, the later ones with the header-less printer; the
\* banner is written once, right before the first pod is printed, and not at
\* all without target pods; a pod is printed before its own delete call and
\* after the delete calls of the pods before it.
C10_OutputOrder ==
  /\ \A s \in Returned :
       (~opts.dryRun /\ ReachedLoop(s)) =>
         /\ [i \in 1..Len(Prints(s)) |-> Prints(s)[i].pod] = Ascending(Targets(s))
         /\ \A i \in 1..Len(Prints(s)) : Prints(s)[i].flag = (i = 1)
         /\ Cardinality(Idx("banner", s)) = IF Targets(s) = {} THEN 0 ELSE 1
  /\ \A s \in 1..ni :
       /\ \A b \in Idx("banner", s) :
            /\ \A i \in Idx("print", s) : b < i
            /\ b + 1 \in Idx("print", s)
            /\ log[b].node = nodes[s]
       /\ \A i \in Idx("print", s) : \A j \in Idx("delete", s) :
            /\ log[j].pod = log[i].pod => i < j
            /\ log[j].pod < log[i].pod => j < i

\* The step of the scenario has returned: p1 (backed) is printed with the
\* header after the banner and deleted, then p2 (standalone) is printed
\* without header and not deleted.
C10_Witness ==
  \E s \in Returned :
    /\ ~opts.dryRun /\ ~opts.force
    /\ {1, 2} \subseteq Targets(s) /\ Backed(1) /\ ~Backed(2)
    /\ \E b \in Idx("banner", s) :
         /\ Len(log) >= b + 3
         /\ log[b + 1] = Event("print", s, nodes[s], 1, TRUE, 0)
         /\ log[b + 2].kind = "delete" /\ log[b + 2].pod = 1
         /\ log[b + 3] = Event("print", s, nodes[s], 2, FALSE, 0)
    /\ DeleteCalls(s, 2) = 0


\* The pods whose delete call in step s succeeded.
Deleted(s) == {log[i].pod : i \in {j \in Idx("delete", s) : log[j].flag}}

\* The pods the error returned by step s has an entry for.
ErrorPods(s) == {rets[s].errs[k].pod : k \in DOMAIN rets[s].errs} \ {0}

\* Step t is a re-run of step s: a later step on the same node, both returned.
ReRun(s, t) == s \in Returned /\ t \in Returned /\ s < t /\ nodes[s] = nodes[t]

\* C11 as stated: a re-run on the same node issues no delete call and records
\* no error for a pod an earlier run deleted; after a run that deleted every
\* target pod, the re-run issues no delete call and returns no error.
C11_RetrySafe ==
  \A s, t \in Returned :
    (ReRun(s, t) /\ ~opts.dryRun) =>
      /\ \A p \in Deleted(s) : DeleteCalls(t, p) = 0 /\ p \notin ErrorPods(t)
      /\ (ReachedLoop(s) /\ Targets(s) # {} /\ Targets(s) \subseteq Deleted(s)) =>
           /\ Idx("delete", t) = {}
           /\ rets[t] = Nil

\* C11 amended: the same, but the re-run returns no error only if its own
\* listings and printer lookup succeed; it issues no delete call in any case.
C11_RetrySafeWhenListingSucceeds ==
  \A s, t \in Returned :
    (ReRun(s, t) /\ ~opts.dryRun) =>
      /\ \A p \in Deleted(s) :
           /\ DeleteCalls(t, p) = 0
           /\ p \notin ErrorPods(t)
           /\ p \notin Targets(t)
           /\ \A i \in Idx("print", t) : log[i].pod # p
      /\ (ReachedLoop(s) /\ Targets(s) \subseteq Deleted(s)) =>
           /\ Idx("delete", t) = {}
           /\ ReachedLoop(t) => rets[t] = Nil
           /\ ~ReachedLoop(t) => rets[t].kind \in {"ListError", "PrinterError"}

\* A run deleted its three target pods, one of them standalone, with --force;
\* the re-run on the same node listed no pod, deleted nothing, returned nil.
C11_Witness ==
  \E s, t \in Returned :
    /\ ReRun(s, t) /\ ~opts.dryRun /\ opts.force
    /\ Cardinality(Targets(s)) >= 3 /\ Targets(s) = Deleted(s)
    /\ \E p \in Deleted(s) : ~Backed(p)
    /\ ReachedLoop(t) /\ Idx("delete", t) = {} /\ rets[t] = Nil


\* C12: every delete call of a batch carries the request's grace period, the
\* same for every pod and node; options created by NewEvacuateOptions and not
\* overridden have grace period 30, dryRun false and force false.
C12_GracePeriodCarried ==
  LET def == NewEvacuateOptions(opts.podSelector, opts.nodeArgs)
  IN /\ \A i \in DOMAIN log :
          log[i].kind = "delete" => log[i].grace = opts.gracePeriod
     /\ def.gracePeriod = 30 /\ ~def.dryRun /\ ~def.force
     /\ opts = def =>
          \A i \in DOMAIN log : log[i].kind = "delete" => log[i].grace = 30

\* A batch has ended that deleted pods on two nodes with a grace period
\* overridden to 0.
C12_Witness ==
  /\ pc = "done"
  /\ opts.gracePeriod = 0
  /\ \E i \in Idx("delete", 1), j \in Idx("delete", 2) :
       log[i].pod # log[j].pod /\ log[i].grace = 0 /\ log[j].grace = 0

\* C13: no step of a batch changes a node's unschedulable flag or a
\* replication controller; the only change to the cluster is that pods go.
C13_OnlyPodsAreDeleted ==
  [][/\ unsched' = unsched
     /\ clusterRCs' = clusterRCs
     /\ clusterPods' \subseteq clusterPods]_vars

\* A batch has ended in which one node failed the gate check and pods of
\* another node were deleted; the failed node is still schedulable.
C13_Witness ==
  /\ pc = "done" /\ ~opts.dryRun
  /\ \E s \in Returned : rets[s] = GateError(nodes[s]) /\ ~unsched[nodes[s]]
  /\ clusterPods # initPods
  /\ clusterRCs # {}

\* The key/value pairs of a label set or of a selector.
Pairs(f) == {<<k, f[k]>> : k \in DOMAIN f}

\* The reference classification of a listed pod: some listed controller has
\* all the pairs of its selector among the pairs of the pod's labels.
RefBacked(p) ==
  \E r \in {rcs[i] : i \in DOMAIN rcs} :
    Pairs(RCSelector(r)) \subseteq Pairs(podItems[p])

\* The orderings of a list of distinct items.
Perms(s) ==
  {q \in [DOMAIN s -> {s[i] : i \in DOMAIN s}] :
     \A i, j \in DOMAIN q : i # j => q[i] # q[j]}

\* C14: when the delete decision of a pod is taken, foundrc is true iff some
\* listed controller has every pair of its selector present and equal in the
\* pod's labels; labels beyond the selector do not matter, a controller with
\* an empty selector backs every pod, with no controller listed the pod is
\* standalone, and the value is the same for every order of the controllers;
\* it is computed from the pod's own labels and the controllers only.
C14_ClassificationIsReference ==
  pc = "delete" =>
    /\ foundrc = RefBacked(pods[pi])
    /\ (\E i \in DOMAIN rcs : RCSelector(rcs[i]) = EmptyLabels) => foundrc
    /\ rcs = <<>> => ~foundrc
    /\ \A q \in Perms(rcs) : FoundRC(pods[pi], q) = foundrc
    /\ \A i \in DOMAIN rcs :
         (DOMAIN RCSelector(rcs[i]) # DOMAIN podItems[pods[pi]]
            /\ Matches(RCSelector(rcs[i]), podItems[pods[pi]])) => foundrc

\* The decision is being taken for one of several listed pods, a labelled pod
\* that is backed only by the controller with the empty selector, listed last.
C14_Witness ==
  /\ pc = "delete" /\ foundrc /\ Len(rcs) = MaxRCs /\ Len(pods) > 1
  /\ \A i \in DOMAIN rcs :
       Matches(RCSelector(rcs[i]), podItems[pods[pi]])
         => (RCSelector(rcs[i]) = EmptyLabels /\ i = Len(rcs))
  /\ podItems[pods[pi]] # EmptyLabels

\* The pods printed by the listing of dry-run step s.
Listed(s) == {log[i].pod : i \in Idx("listed", s)}

\* C15: in a dry-run step whose listing succeeds, the pods printed are
\* exactly the target pods of the step's node, and in a batch every target
\* pod is printed once, during the step of its node.
C15_DryRunPrintsNodeTargets ==
  \A s \in Returned :
    (opts.dryRun /\ rets[s] = Nil) =>
      /\ Listed(s) = Targets(s)
      /\ \A p \in Targets(s) :
           Cardinality({i \in DOMAIN log :
                          log[i].kind = "listed" /\ log[i].pod = p}) = 1

\* The kinds of the events of step s.
Kinds(s) == {log[i].kind : i \in {j \in DOMAIN log : log[j].step = s}}

\* C16: in a step without --dry-run, a selector that does not parse makes the
\* step return InvalidSelector before any list call; a failed pod listing,
\* controller listing or printer lookup makes the step return that error with
\* no banner, no pod printed, no delete call and the pod set unchanged; the
\* batch still runs a step for every node.
C16_NodeFailureAbortsBeforeSideEffects ==
  /\ \A s \in Returned :
       ~opts.dryRun =>
         /\ (unsched[nodes[s]] /\ ~Parse(opts.podSelector).ok) =>
              /\ rets[s] = Err("InvalidSelector", nodes[s], 0)
              /\ Kinds(s) = {"call", "gate"}
         /\ \A k \in {"listPods", "listRCs", "printers"} :
              Failed(k, s) # {} =>
                /\ rets[s] = Err(IF k = "printers" THEN "PrinterError" ELSE "ListError",
                                 nodes[s], 0)
                /\ Kinds(s) \cap {"banner", "print", "delete"} = {}
                /\ retPods[s] = callPods[s]
                /\ \A j \in Failed(k, s) : \A i \in DOMAIN log : log[i].step = s => i <= j
  /\ (pc = "done" /\ result.kind # "GetNodesError") => Returned = DOMAIN nodes

\* A batch has ended in which the first node's controller listing failed
\* after its pods were listed, and pods of the second node were deleted.
C16_Witness ==
  /\ pc = "done" /\ ~opts.dryRun /\ Len(nodes) = 2
  /\ Failed("listRCs", 1) # {} /\ Targets(1) # {}
  /\ Idx("delete", 2) # {} /\ retPods[2] # callPods[2]

\* The pods of the listing whose delete decision the current step has taken.
Decided == IF pc = "delete" THEN pi - 1 ELSE pi

\* The positions in the listing of the pods the current step issued a delete
\* call for, in the order of the calls.
DeletePositions ==
  LET calls == SelectSeq(log, LAMBDA e : e.kind = "delete" /\ e.step = ni)
  IN [i \in DOMAIN calls |-> CHOOSE j \in DOMAIN pods : pods[j] = calls[i].pod]

\* C17: at every point of a node step the pods a delete call has been issued
\* for are exactly the eligible pods (controller-backed, or all with --force)
\* of a prefix of the listing, called in listing order; the pods after the
\* prefix have no delete call and still exist; before the loop nothing is
\* deleted; a pod whose delete succeeded never comes back.
C17_DeletesAreEligiblePrefix ==
  /\ pc \in {"podLoop", "delete"} =>
       /\ Decided \in 0..Len(pods)
       /\ {log[i].pod : i \in Idx("delete", ni)}
            = {pods[j] : j \in {k \in 1..Decided : RefBacked(pods[k]) \/ opts.force}}
       /\ \A i, j \in DOMAIN DeletePositions :
            i < j => DeletePositions[i] < DeletePositions[j]
       /\ \A j \in (Decided + 1)..Len(pods) :
            pods[j] \in clusterPods /\ DeleteCalls(ni, pods[j]) = 0
  /\ pc \in {"RunEvacuate", "dryRun", "gate", "parse", "listPods", "listRCs", "printers"}
       => Idx("delete", ni) = {}
  /\ \A i \in DOMAIN log :
       (log[i].kind = "delete" /\ log[i].flag) => log[i].pod \notin clusterPods

\* A step without --force stands between two pods of a listing of three: the
\* first pod is deleted, the delete of the second failed, the third is
\* untouched.
C17_Witness ==
  /\ pc = "podLoop" /\ ~opts.force /\ Len(pods) = 3 /\ pi = 2 /\ ni = 2
  /\ pods[1] \notin clusterPods
  /\ Failed("delete", ni) # {}
  /\ pods[3] \in clusterPods /\ RefBacked(pods[3])

\* The existing controllers whose selector matches pod p and that live in
\* a namespace other than the pod's.
ForeignBackers(p) ==
  {r \in clusterRCs : /\ Matches(RCSelector(r), PodLabels(p))
                      /\ RCNamespace(r) # PodNamespace(p)}

\* Pod p is backed by controllers of other namespaces only.
ForeignBackedOnly(p) ==
  /\ ForeignBackers(p) # {}
  /\ \A r \in clusterRCs :
       Matches(RCSelector(r), PodLabels(p)) => r \in ForeignBackers(p)

\* C19: the controllers of every namespace are listed and compared with a pod
\* by labels only: a pod whose only matching controllers live in another
\* namespace is classified as controller-backed and, without --force, gets
\* its delete call.
C19_NamespaceAgnostic ==
  /\ pc \in {"printers", "podLoop", "delete"} =>
       {RCNamespace(rcs[i]) : i \in DOMAIN rcs} = {RCNamespace(r) : r \in clusterRCs}
  /\ (pc = "delete" /\ ForeignBackedOnly(pods[pi])) => foundrc
  /\ \A s \in Returned :
       (~opts.dryRun /\ ~opts.force /\ ReachedLoop(s)) =>
         \A p \in Targets(s) : ForeignBackedOnly(p) => DeleteCalls(s, p) = 1

\* A step without --force has returned that deleted a pod of namespace nsA
\* whose only matching controller lives in nsB, while controllers of both
\* namespaces exist.
C19_Witness ==
  \E s \in Returned :
    /\ ~opts.dryRun /\ ~opts.force
    /\ {RCNamespace(r) : r \in clusterRCs} = {"nsA", "nsB"}
    /\ \E p \in Deleted(s) :
         /\ PodNamespace(p) = "nsA"
         /\ Cardinality(ForeignBackers(p)) = 1
         /\ ForeignBackedOnly(p)

\* Pod p is controller-backed in the cluster as it is now.
BackedNow(p) == \E r \in clusterRCs : Matches(RCSelector(r), clusterLabels[p])

\* C18: with the control plane removing controllers, relabelling pods and
\* marking nodes schedulable during a step without --force, the pods and the
\* controllers are listed at most once per step, the classification of a pod
\* is the one its listed copy has against the listed controllers, every
\* listed pod backed in that snapshot gets its delete call whatever the
\* cluster has become, and delete calls go to listed pods only.
C18_DecisionsFromSnapshot ==
  /\ \A s \in 1..ni :
       Cardinality(Idx("listPods", s)) <= 1 /\ Cardinality(Idx("listRCs", s)) <= 1
  /\ pc = "delete" => foundrc = RefBacked(pods[pi])
  /\ \A i \in Idx("delete", ni) :
       /\ log[i].pod \in DOMAIN podItems
       /\ RefBacked(log[i].pod)
  /\ (ni \in Returned /\ ReachedLoop(ni)) =>
       \A p \in DOMAIN podItems : RefBacked(p) => DeleteCalls(ni, p) = 1

\* A step has returned in which the only controller that matched a listed pod
\* was removed after the controllers were listed and before the pod's delete
\* call; the pod has no controller now and was deleted.
C18_Witness ==
  /\ ni \in Returned /\ ReachedLoop(ni)
  /\ \E d \in Idx("delete", ni), l \in Idx("listRCs", ni) :
       /\ log[d].flag /\ ~BackedNow(log[d].pod)
       /\ \E j \in DOMAIN log :
            /\ l < j /\ j < d /\ log[j].kind = "envRemoveRC"
            /\ Matches(RCSelector(log[j].pod), podItems[log[d].pod])
====
